---- MODULE Spec2Model ----
(***************************************************************************)
(* A model of the PPP session engine of src/ppp.c: the negotiation state   *)
(* of LCP, IPCP and IP6CP, the frame parser, and ppp_mainloop, which is     *)
(* modelled as a sequence of steps (state switch, one step per frame read,  *)
(* one per transport write, one per keepalive/dequeue round, return).       *)
(*                                                                         *)
(* Bytes are naturals 0..255.  32-bit values that the code keeps in wire   *)
(* order (the magic numbers, the asyncmaps, the addresses) are sequences   *)
(* of their bytes.  A bitset (NCP state, LCP options) is the set of the    *)
(* bit weights that are set, so that two flags defined with the same       *)
(* weight are the same member.  Allocation is assumed to succeed.          *)
(***************************************************************************)
EXTENDS Integers, Sequences, FiniteSets, TLC

\* ------------------------------------------------------------ bounds
\* frames the peer sends in one behaviour
MaxFrames == 3
\* seconds the clock advances
MaxTicks == 3
\* IP packets the host puts on the outgoing queue
MaxOut == 1
\* keepalive and DPD packets the engine enqueues
MaxKa == 1
\* transport faults: failed or blocked reads and writes, a dead peer, a rekey,
\* a closed transport
MaxFaults == 1
MaxLen == 3
MaxHdr == 4
MaxSlack == 3
\* time(NULL) when the session is created
StartClock == 10

\* ------------------------------------------------------------ constants
PPP_LCP == 49185
PPP_IPCP == 32801
PPP_IP6CP == 32855
PPP_IP == 33
PPP_IP6 == 87

CONFREQ == 1
CONFACK == 2
CONFNAK == 3
CONFREJ == 4
TERMREQ == 5
TERMACK == 6
CODEREJ == 7
PROTREJ == 8
ECHOREQ == 9
ECHOREP == 10
DISCREQ == 11

ASYNCMAP_LCP == <<255, 255, 255, 255>>

ACCOMP == 1
PFCOMP == 2
VJCOMP == 4

PPPS_DEAD == 0
PPPS_ESTABLISH == 1
PPPS_OPENED == 2
PPPS_AUTHENTICATE == 3
PPPS_NETWORK == 4
PPPS_TERMINATE == 5

NCP_CONF_REQ_RECEIVED == 1
NCP_CONF_REQ_SENT == 2
NCP_CONF_ACK_RECEIVED == 4
NCP_CONF_ACK_SENT == 8
NCP_TERM_REQ_SENT == 16
NCP_TERM_REQ_RECEIVED == 32
NCP_TERM_ACK_SENT == 16
NCP_TERM_ACK_RECEIVED == 32

\* declared outside ppp.c; ppp.c only tells the two encapsulations apart and
\* returns -EINVAL, so only the distinctness and the sign matter here
PPP_ENCAP_F5 == 1
PPP_ENCAP_F5_HDLC == 2

EINVAL == 22

\* enum values declared outside ppp.c are kept by name
DTLS_CONNECTED == "DTLS_CONNECTED"
DTLS_OTHER == "DTLS_NOT_CONNECTED"

KA_NONE == "KA_NONE"
KA_DPD_DEAD == "KA_DPD_DEAD"
KA_DPD == "KA_DPD"
KA_KEEPALIVE == "KA_KEEPALIVE"
KA_REKEY == "KA_REKEY"

\* ------------------------------------------------------------ bytes
Byte == 0..255

load_be16(b, i) == b[i] * 256 + b[i + 1]

store_be16(v) == <<(v \div 256) % 256, v % 256>>

SubBytes(b, from, to) == IF from > to THEN <<>> ELSE SubSeq(b, from, to)

\* ~x of a 32-bit value kept as its four bytes
Complement(m) == [i \in 1..Len(m) |-> 255 - m[i]]

\* ------------------------------------------------------------ HDLC
\* map && (1UL << c): a logical and of two values, the second never zero
NEED_ESCAPE(c, map) ==
    \/ c < 32 /\ (map # <<0, 0, 0, 0>> /\ TRUE)
    \/ c = 125
    \/ c = 126

\* c ^ 0x20
Xor32(c) == IF (c \div 32) % 2 = 1 THEN c - 32 ELSE c + 32

RECURSIVE hdlc_loop(_, _, _, _, _)
hdlc_loop(buf, data, i, s, asyncmap) ==
    IF i >= Len(data) THEN buf
    ELSE IF NEED_ESCAPE(data[i + 1], asyncmap)
         THEN LET flushed == IF i > s
                             THEN buf \o SubBytes(data, s + 1, s + (i - s - 1))
                             ELSE buf
              IN hdlc_loop(flushed \o <<125, Xor32(data[i + 1])>>,
                           data, i + 1, i + 1, asyncmap)
         ELSE hdlc_loop(buf, data, i + 1, s, asyncmap)

buf_append_ppphdlc(buf, bytes, asyncmap) == hdlc_loop(buf, bytes, 0, 0, asyncmap)

buf_append_ppp(buf, hdlc, bytes, asyncmap) ==
    IF hdlc = 1 THEN buf_append_ppphdlc(buf, bytes, asyncmap) ELSE buf \o bytes

\* ------------------------------------------------------------ TLVs
buf_append_ppp_tlv(buf, tag, data, hdlc, asyncmap) ==
    LET b == <<tag, Len(data) + 2>>
        withhdr == buf_append_ppp(buf, hdlc, b, asyncmap)
    IN IF Len(data) # 0 THEN buf_append_ppp(withhdr, hdlc, data, asyncmap)
       ELSE withhdr

buf_append_ppp_tlv_be16(buf, tag, value, hdlc, asyncmap) ==
    buf_append_ppp_tlv(buf, tag, store_be16(value), hdlc, asyncmap)

\* the value is kept as its four big-endian bytes
buf_append_ppp_tlv_be32(buf, tag, value, hdlc, asyncmap) ==
    buf_append_ppp_tlv(buf, tag, value, hdlc, asyncmap)

\* ------------------------------------------------------------ records
\* F(v), with v evaluated once however often F uses its argument
With(v, F(_)) == CHOOSE r \in {F(x) : x \in {v}} : TRUE

NoPkt == <<>>

NoReason == [kind |-> "NULL", text |-> <<>>]

Reason(s) == [kind |-> s, text |-> <<>>]

\* struct pkt: ppp.proto, data[0..len-1], and the header bytes written at
\* negative offsets data[-hlen..-1]
Pkt(proto, data) == [proto |-> proto, data |-> data, hdr |-> <<>>, hlen |-> 0]

new_ncp == [state |-> {}, last_req |-> 0]

ncp_of(ppp, proto) ==
    IF proto = PPP_LCP THEN ppp.lcp
    ELSE IF proto = PPP_IPCP THEN ppp.ipcp
    ELSE ppp.ip6cp

with_ncp(ppp, proto, ncp) ==
    IF proto = PPP_LCP THEN [ppp EXCEPT !.lcp = ncp]
    ELSE IF proto = PPP_IPCP THEN [ppp EXCEPT !.ipcp = ncp]
    ELSE [ppp EXCEPT !.ip6cp = ncp]

IsNcpProto(proto) == proto \in {PPP_LCP, PPP_IPCP, PPP_IP6CP}

\* a machine state M is [ppp |-> struct oc_ppp, vpn |-> struct openconnect_info,
\* ret |-> the int the last call returned]

\* ------------------------------------------------------------ control packets
\* variant: the packet carries id 0 instead of the id it was given
queue_config_packet_no_id(M, proto, id, code, payload) ==
    [M EXCEPT !.ret = 0,
              !.vpn.tcp_control_queue =
                  Append(@, Pkt(proto, <<code, 0>> \o store_be16(4 + Len(payload))
                                       \o payload))]

queue_config_packet(M, proto, id, code, payload) ==
    LET len == 4 + Len(payload)
        p == Pkt(proto, <<code, id>> \o store_be16(len) \o payload)
    IN [M EXCEPT !.vpn.tcp_control_queue = Append(@, p), !.ret = 0]

\* ------------------------------------------------------------ Configure-Request in
\* PROTO_TAG_LEN(proto, t, l - 2) against the case labels: the packed value is
\* injective on (proto, t, l - 2) for l >= 2 and matches no label for l < 2
PROTO_TAG_LEN(p, t, l) == <<p, t, l>>

\* one iteration of the option loop at offset o (0-based) of payload:
\* the fields the option sets, or err for the unknown: label
handle_option(M, proto, payload, o) ==
    LET t == payload[o + 1]
        l == payload[o + 2]
        key == PROTO_TAG_LEN(proto, t, l - 2)
        val == SubBytes(payload, o + 3, o + l)
    IN CASE key = PROTO_TAG_LEN(PPP_LCP, 1, 2) ->
              [M EXCEPT !.vpn.ip_info.mtu = load_be16(payload, o + 3)]
         [] key = PROTO_TAG_LEN(PPP_LCP, 2, 4) ->
              [M EXCEPT !.ppp.in_asyncmap = val]
         [] key = PROTO_TAG_LEN(PPP_LCP, 5, 4) ->
              [M EXCEPT !.ppp.in_lcp_magic = val]
         [] key = PROTO_TAG_LEN(PPP_LCP, 7, 0) ->
              [M EXCEPT !.ppp.in_lcp_opts = @ \cup {PFCOMP}]
         [] key = PROTO_TAG_LEN(PPP_LCP, 8, 0) ->
              [M EXCEPT !.ppp.in_lcp_opts = @ \cup {ACCOMP}]
         [] key = PROTO_TAG_LEN(PPP_IPCP, 2, 2) ->
              IF load_be16(payload, o + 3) = 45
              THEN [M EXCEPT !.ppp.in_lcp_opts = @ \cup {VJCOMP}]
              ELSE [M EXCEPT !.ret = -EINVAL]
         [] key = PROTO_TAG_LEN(PPP_IPCP, 3, 4) ->
              [M EXCEPT !.ppp.in_peer_addr = val]
         [] key = PROTO_TAG_LEN(PPP_IP6CP, 1, 8) ->
              [M EXCEPT !.ppp.in_ipv6_int_ident = val]
         [] OTHER -> [M EXCEPT !.ret = -EINVAL]

\* for (p = payload; p+1 < payload+len && p+p[1] <= payload+len; p += p[1]):
\* the state after the loop and the offset p - payload it stopped at
RECURSIVE option_loop(_, _, _, _)
option_loop(M, proto, payload, o) ==
    IF o + 1 < Len(payload) /\ o + payload[o + 2] <= Len(payload)
    THEN With([M1 |-> handle_option([M EXCEPT !.ret = 0], proto, payload, o),
               o1 |-> o + payload[o + 2]],
              LAMBDA s : IF s.M1.ret # 0 THEN [M |-> s.M1, o |-> o]
                         ELSE option_loop(s.M1, proto, payload, s.o1))
    ELSE [M |-> [M EXCEPT !.ret = 0], o |-> o]

handle_config_request(M, proto, id, payload) ==
    IF ~IsNcpProto(proto) THEN [M EXCEPT !.ret = -EINVAL]
    ELSE With(option_loop(M, proto, payload, 0), LAMBDA r :
            IF r.M.ret # 0 THEN r.M
            ELSE LET ncp1 == [ncp_of(r.M.ppp, proto) EXCEPT
                                 !.state = @ \cup {NCP_CONF_REQ_RECEIVED}]
                     M1 == [r.M EXCEPT !.ppp = with_ncp(@, proto, ncp1)]
                     M2 == queue_config_packet(M1, proto, id, CONFACK, payload)
                     ncp2 == [ncp_of(M2.ppp, proto) EXCEPT
                                 !.state = @ \cup {NCP_CONF_ACK_SENT}]
                 IN [M2 EXCEPT !.ppp = with_ncp(@, proto, ncp2), !.ret = 0])

\* ------------------------------------------------------------ Configure-Request out
\* if (ppp->out_lcp_opts & flag) buf_append_ppp_tlv(buf, tag, 0, NULL, ...)
buf_append_ppp_flag(buf, set, tag, hdlc, asyncmap) ==
    IF set THEN buf_append_ppp_tlv(buf, tag, <<>>, hdlc, asyncmap) ELSE buf

queue_config_request(M, proto, id) ==
    LET ppp == M.ppp
    IN CASE proto = PPP_LCP ->
              LET mtu == IF M.vpn.ip_info.mtu = 0 THEN 1300 ELSE M.vpn.ip_info.mtu
                  p1 == [ppp EXCEPT !.out_asyncmap = <<0, 0, 0, 0>>,
                                    !.out_lcp_magic = Complement(ppp.in_lcp_magic),
                                    !.out_lcp_opts = {ACCOMP, PFCOMP}]
                  b1 == buf_append_ppp_tlv_be16(<<>>, 1, mtu, p1.hdlc, ASYNCMAP_LCP)
                  b2 == buf_append_ppp_tlv_be32(b1, 2, p1.out_asyncmap, p1.hdlc, ASYNCMAP_LCP)
                  b3 == buf_append_ppp_tlv(b2, 5, p1.out_lcp_magic, p1.hdlc, ASYNCMAP_LCP)
                  b4 == buf_append_ppp_flag(b3, PFCOMP \in p1.out_lcp_opts, 7,
                                            p1.hdlc, ASYNCMAP_LCP)
                  b5 == buf_append_ppp_flag(b4, ACCOMP \in p1.out_lcp_opts, 8,
                                            p1.hdlc, ASYNCMAP_LCP)
                  M1 == [M EXCEPT !.ppp = p1, !.vpn.ip_info.mtu = mtu]
                  M2 == queue_config_packet(M1, proto, id, CONFREQ, b5)
              IN [M2 EXCEPT !.ppp.lcp.state = @ \cup {NCP_CONF_REQ_SENT}, !.ret = 0]
         [] proto = PPP_IPCP ->
              LET p1 == IF M.vpn.ip_info.addr # <<>>
                        THEN [ppp EXCEPT !.out_peer_addr = M.vpn.ip_info.addr]
                        ELSE ppp
                  b1 == buf_append_ppp_tlv(<<>>, 3, p1.out_peer_addr, p1.hdlc, p1.out_asyncmap)
                  M2 == queue_config_packet([M EXCEPT !.ppp = p1], proto, id, CONFREQ, b1)
              IN [M2 EXCEPT !.ppp.ipcp.state = @ \cup {NCP_CONF_REQ_SENT}, !.ret = 0]
         [] proto = PPP_IP6CP ->
              LET ipv6a == IF M.vpn.ip_info.addr6 # <<>> THEN M.vpn.ip_info.addr6
                           ELSE [i \in 1..16 |-> 0]
                  p1 == [ppp EXCEPT !.out_ipv6_int_ident = SubBytes(ipv6a, 9, 16)]
                  b1 == buf_append_ppp_tlv(<<>>, 1, p1.out_ipv6_int_ident, p1.hdlc, p1.out_asyncmap)
                  M2 == queue_config_packet([M EXCEPT !.ppp = p1], proto, id, CONFREQ, b1)
              IN [M2 EXCEPT !.ppp.ip6cp.state = @ \cup {NCP_CONF_REQ_SENT}, !.ret = 0]
         [] OTHER -> [M EXCEPT !.ret = -EINVAL]

\* ------------------------------------------------------------ control packet in
\* variant: the reply is queued whatever the state
handle_echo_request_any_state(M, proto, id) ==
    queue_config_packet(M, proto, id, ECHOREP, M.ppp.out_lcp_magic)

\* case ECHOREQ
handle_echo_request(M, proto, id) ==
    IF M.ppp.ppp_state >= PPPS_OPENED
    THEN queue_config_packet(M, proto, id, ECHOREP, M.ppp.out_lcp_magic)
    ELSE [M EXCEPT !.ret = 0]

\* p is the control packet: code, id, length (2 bytes), payload
handle_config_packet(M, proto, p) ==
    LET code == p[1]
        id == p[2]
        len == Len(p)
        reason == IF M.vpn.quit_reason = NoReason /\ len > 4
                  THEN [kind |-> "peer", text |-> SubBytes(p, 5, len)]
                  ELSE M.vpn.quit_reason
        \* r: the state, ret and add_state after the first switch
        r == CASE code = CONFREQ ->
                    [M |-> handle_config_request(M, proto, id, SubBytes(p, 5, len)),
                     add |-> {}]
               [] code = CONFACK ->
                    [M |-> [M EXCEPT !.ret = 0], add |-> {NCP_CONF_ACK_RECEIVED}]
               [] code = ECHOREQ ->
                    [M |-> handle_echo_request(M, proto, id), add |-> {}]
               [] code = TERMREQ ->
                    \* add_state = NCP_TERM_REQ_RECEIVED is overwritten by
                    \* add_state = NCP_TERM_ACK_SENT once the Ack is queued
                    [M |-> [queue_config_packet(M, proto, id, TERMACK, <<>>) EXCEPT
                               !.vpn.quit_reason = reason,
                               !.ppp.ppp_state = PPPS_TERMINATE],
                     add |-> {NCP_TERM_ACK_SENT}]
               [] code = TERMACK ->
                    [M |-> [M EXCEPT !.vpn.quit_reason = reason,
                                     !.ppp.ppp_state = PPPS_TERMINATE,
                                     !.ret = 0],
                     add |-> {NCP_TERM_ACK_RECEIVED}]
               [] code \in {ECHOREP, DISCREQ} ->
                    [M |-> [M EXCEPT !.ret = 0], add |-> {}]
               [] OTHER ->
                    [M |-> [M EXCEPT !.ret = -EINVAL], add |-> {}]
    IN With(r, LAMBDA s :
          IF ~IsNcpProto(proto) THEN [s.M EXCEPT !.ret = -EINVAL]
          ELSE LET ncp == ncp_of(s.M.ppp, proto)
               IN [s.M EXCEPT !.ppp = with_ncp(@, proto,
                                          [ncp EXCEPT !.state = @ \cup s.add])])

\* ------------------------------------------------------------ external collaborators
\* ka_check_deadline(timeout, now, due): whether the deadline has passed (the
\* folding of the deadline into *timeout is not modelled)
ka_check_deadline(now, due) == now >= due

\* do_reconnect: ssl_reconnect() returned rc; a successful reconnect leaves the
\* transport open
do_reconnect(M, rc) ==
    IF rc # 0
    THEN [M EXCEPT !.vpn.quit_reason = Reason("PPP reconnect failed"), !.ret = rc]
    ELSE [M EXCEPT !.vpn.ssl_fd = 1, !.ret = 1]

\* ------------------------------------------------------------ ppp_mainloop: state switch
HasBoth(ncp) == NCP_CONF_ACK_RECEIVED \in ncp.state /\ NCP_CONF_ACK_SENT \in ncp.state

\* if (!(ncp.state & NCP_CONF_ACK_RECEIVED) && ka_check_deadline(...)) for the
\* NCP of proto, under if (ppp->want_ipvX)
request_if_due(M, proto, want, now) ==
    IF /\ want
       /\ NCP_CONF_ACK_RECEIVED \notin ncp_of(M.ppp, proto).state
       /\ ka_check_deadline(now, ncp_of(M.ppp, proto).last_req + 3)
    THEN queue_config_request(
             [M EXCEPT !.ppp = with_ncp(@, proto,
                                        [ncp_of(@, proto) EXCEPT !.last_req = now])],
             proto, 1)
    ELSE M

\* variant: NETWORK needs IPCP and IP6CP open whether wanted or not
network_if_both(M) ==
    IF HasBoth(M.ppp.ipcp) /\ HasBoth(M.ppp.ip6cp)
    THEN [M EXCEPT !.ppp.ppp_state = PPPS_NETWORK]
    ELSE M

\* Have we configured all the protocols we want?
network_if_configured(M) ==
    IF /\ (~M.ppp.want_ipv4 \/ HasBoth(M.ppp.ipcp))
       /\ (~M.ppp.want_ipv6 \/ HasBoth(M.ppp.ip6cp))
    THEN [M EXCEPT !.ppp.ppp_state = PPPS_NETWORK]
    ELSE M

\* case PPPS_OPENED and the fall through to case PPPS_NETWORK
case_opened(M, now) ==
    network_if_configured(
        request_if_due(request_if_due(M, PPP_IPCP, M.ppp.want_ipv4, now),
                       PPP_IP6CP, M.ppp.want_ipv6, now))

\* case PPPS_ESTABLISH: the Configure-Request and break, or else the fall
\* through to case PPPS_OPENED, with the state OPENED if LCP is open
case_establish(M, now) ==
    IF ~HasBoth(M.ppp.lcp) /\ ka_check_deadline(now, M.ppp.lcp.last_req + 3)
    THEN queue_config_request([M EXCEPT !.ppp.lcp.last_req = now], PPP_LCP, 1)
    ELSE case_opened([M EXCEPT !.ppp.ppp_state =
                                  IF HasBoth(M.ppp.lcp) THEN PPPS_OPENED ELSE @],
                     now)

\* state_switch with TERMINATE handled as NETWORK is
state_switch_terminate_runs(M, now) ==
    LET st == M.ppp.ppp_state
    IN CASE st \in {PPPS_DEAD, PPPS_ESTABLISH} ->
              [M |-> case_establish([M EXCEPT !.ppp.ppp_state = PPPS_ESTABLISH], now),
               returned |-> FALSE]
         [] st = PPPS_OPENED ->
              [M |-> case_opened(M, now), returned |-> FALSE]
         [] st \in {PPPS_NETWORK, PPPS_TERMINATE} ->
              [M |-> M, returned |-> FALSE]
         [] OTHER ->
              [M |-> [M EXCEPT !.vpn.quit_reason = Reason("Unexpected state"),
                               !.ret = 1],
               returned |-> TRUE]

\* switch (ppp->ppp_state): the state after it, and whether it returned 1
state_switch(M, now) ==
    LET st == M.ppp.ppp_state
    IN CASE st \in {PPPS_DEAD, PPPS_ESTABLISH} ->
              \* case PPPS_DEAD sets ESTABLISH and falls through
              [M |-> case_establish([M EXCEPT !.ppp.ppp_state = PPPS_ESTABLISH], now),
               returned |-> FALSE]
         [] st = PPPS_OPENED ->
              [M |-> case_opened(M, now), returned |-> FALSE]
         [] st = PPPS_NETWORK ->
              [M |-> M, returned |-> FALSE]
         [] st = PPPS_TERMINATE ->
              [M |-> [M EXCEPT !.ret = 1], returned |-> TRUE]
         [] OTHER ->
              [M |-> [M EXCEPT !.vpn.quit_reason = Reason("Unexpected state"),
                               !.ret = 1],
               returned |-> TRUE]

\* ppp_header with the protocol field always taken as two bytes
ppp_header_no_pfcomp(ppp, b) ==
    LET acbad == ACCOMP \notin ppp.in_lcp_opts /\ (b[1] # 255 \/ b[2] # 3)
        ac == IF ACCOMP \in ppp.in_lcp_opts
              THEN (IF b[1] = 255 /\ b[2] = 3 THEN 2 ELSE 0)
              ELSE 2
    IN IF acbad THEN [bad |-> TRUE, proto |-> 0, hlen |-> 0]
       ELSE [bad |-> FALSE, proto |-> load_be16(b, ac + 1), hlen |-> ac + 2]

\* ------------------------------------------------------------ ppp_mainloop: one frame
\* check PPP header and extract protocol: pp[k] is b[k + 1]; hlen is pp - ph
ppp_header(ppp, b) ==
    IF b[1] = 255 /\ b[1] = 3 /\ load_be16(b, 7) = PPP_LCP
    THEN [bad |-> FALSE, proto |-> PPP_LCP, hlen |-> 4]
    ELSE LET acbad == ACCOMP \notin ppp.in_lcp_opts /\ (b[1] # 255 \/ b[2] # 3)
             ac == IF ACCOMP \in ppp.in_lcp_opts
                   THEN (IF b[1] = 255 /\ b[2] = 3 THEN 2 ELSE 0)
                   ELSE 2
         IN IF acbad THEN [bad |-> TRUE, proto |-> 0, hlen |-> 0]
            ELSE IF PFCOMP \in ppp.in_lcp_opts
                 THEN IF b[ac + 1] % 2 = 1
                      THEN [bad |-> FALSE, proto |-> b[ac + 1], hlen |-> ac + 1]
                      ELSE [bad |-> FALSE, proto |-> b[ac + 1] * 256 + b[ac + 2],
                            hlen |-> ac + 2]
                 ELSE [bad |-> FALSE, proto |-> load_be16(b, ac + 1), hlen |-> ac + 2]

\* read_frame without the two checks of the F5 header
read_frame_no_f5_check(M, frame, work) ==
    LET len == Len(frame)
        f5len == load_be16(frame, 3)
        b == SubBytes(frame, M.ppp.encap_len + 1, len)
        h == ppp_header(M.ppp, b)
        payload_len == f5len - h.hlen
        pp == SubBytes(b, h.hlen + 1, h.hlen + payload_len)
        go(M1, w) == [M |-> M1, next |-> "continue", site |-> "none", work |-> w]
        stop(M1, s) == [M |-> M1, next |-> "return", site |-> s, work |-> work]
    IN IF len < 8
       THEN stop([M EXCEPT !.vpn.quit_reason = Reason("Short packet received"),
                           !.ret = 1], "short")
       ELSE IF M.ppp.encap # PPP_ENCAP_F5
       THEN stop([M EXCEPT !.vpn.quit_reason = Reason("Invalid encapsulation"),
                           !.ret = -EINVAL], "encap")
       ELSE IF h.bad THEN stop([M EXCEPT !.ret = 1], "bad_ppp_pkt")
       ELSE IF IsNcpProto(h.proto)
       THEN IF payload_len < 4 \/ load_be16(pp, 3) # payload_len
            THEN stop([M EXCEPT !.ret = 1], "bad_ppp_pkt")
            ELSE With(pp, LAMBDA p : go(handle_config_packet(M, h.proto, p), work))
       ELSE IF h.proto \in {PPP_IP, PPP_IP6}
       THEN IF M.ppp.ppp_state # PPPS_NETWORK THEN go(M, work)
            ELSE go([M EXCEPT !.ppp.exp_ppp_hdr_size =
                                  IF h.hlen # @ THEN h.hlen ELSE @,
                              !.vpn.incoming_queue = Append(@, pp)], 1)
       ELSE stop([M EXCEPT !.ret = 1], "unknown_proto")

\* read_frame without the test of ppp_state for IP data
read_frame_any_state(M, frame, work) ==
    LET len == Len(frame)
        magic == load_be16(frame, 1)
        f5len == load_be16(frame, 3)
        b == SubBytes(frame, M.ppp.encap_len + 1, len)
        h == ppp_header(M.ppp, b)
        payload_len == f5len - h.hlen
        pp == SubBytes(b, h.hlen + 1, h.hlen + payload_len)
        go(M1, w) == [M |-> M1, next |-> "continue", site |-> "none", work |-> w]
        stop(M1, s) == [M |-> M1, next |-> "return", site |-> s, work |-> work]
    IN IF len < 8
       THEN stop([M EXCEPT !.vpn.quit_reason = Reason("Short packet received"),
                           !.ret = 1], "short")
       ELSE IF M.ppp.encap # PPP_ENCAP_F5
       THEN stop([M EXCEPT !.vpn.quit_reason = Reason("Invalid encapsulation"),
                           !.ret = -EINVAL], "encap")
       ELSE IF magic # 62720 THEN go(M, work)
       ELSE IF len # 4 + f5len THEN go(M, work)
       ELSE IF h.bad THEN stop([M EXCEPT !.ret = 1], "bad_ppp_pkt")
       ELSE IF IsNcpProto(h.proto)
       THEN IF payload_len < 4 \/ load_be16(pp, 3) # payload_len
            THEN stop([M EXCEPT !.ret = 1], "bad_ppp_pkt")
            ELSE With(pp, LAMBDA p : go(handle_config_packet(M, h.proto, p), work))
       ELSE IF h.proto \in {PPP_IP, PPP_IP6}
       THEN go([M EXCEPT !.ppp.exp_ppp_hdr_size =
                             IF h.hlen # @ THEN h.hlen ELSE @,
                         !.vpn.incoming_queue = Append(@, pp)], 1)
       ELSE stop([M EXCEPT !.ret = 1], "unknown_proto")

\* the body of while (readable) for a read of Len(frame) > 0 bytes:
\* next is "continue" (the loop goes on) or "return"; site names the return
read_frame(M, frame, work) ==
    LET len == Len(frame)
        magic == load_be16(frame, 1)
        f5len == load_be16(frame, 3)
        b == SubBytes(frame, M.ppp.encap_len + 1, len)
        h == ppp_header(M.ppp, b)
        payload_len == f5len - h.hlen
        pp == SubBytes(b, h.hlen + 1, h.hlen + payload_len)
        go(M1, w) == [M |-> M1, next |-> "continue", site |-> "none", work |-> w]
        stop(M1, s) == [M |-> M1, next |-> "return", site |-> s, work |-> work]
    IN IF len < 8
       THEN stop([M EXCEPT !.vpn.quit_reason = Reason("Short packet received"),
                           !.ret = 1], "short")
       ELSE IF M.ppp.encap # PPP_ENCAP_F5
       THEN stop([M EXCEPT !.vpn.quit_reason = Reason("Invalid encapsulation"),
                           !.ret = -EINVAL], "encap")
       ELSE IF magic # 62720 THEN go(M, work)
       ELSE IF len # 4 + f5len THEN go(M, work)
       ELSE IF h.bad THEN stop([M EXCEPT !.ret = 1], "bad_ppp_pkt")
       ELSE IF IsNcpProto(h.proto)
       THEN IF payload_len < 4 \/ load_be16(pp, 3) # payload_len
            THEN stop([M EXCEPT !.ret = 1], "bad_ppp_pkt")
            ELSE With(pp, LAMBDA p : go(handle_config_packet(M, h.proto, p), work))
       ELSE IF h.proto \in {PPP_IP, PPP_IP6}
       THEN IF M.ppp.ppp_state # PPPS_NETWORK THEN go(M, work)
            ELSE go([M EXCEPT !.ppp.exp_ppp_hdr_size =
                                  IF h.hlen # @ THEN h.hlen ELSE @,
                              !.vpn.incoming_queue = Append(@, pp)], 1)
       ELSE stop([M EXCEPT !.ret = 1], "unknown_proto")

\* int receive_mtu = MAX(16384, vpninfo->ip_info.mtu): the bytes malloc gives
\* cstp_pkt->data
receive_mtu(M) == IF M.vpn.ip_info.mtu > 16384 THEN M.vpn.ip_info.mtu ELSE 16384

\* ssl_nonblock_read(vpninfo, ph, maxlen) on a transport that holds bytes: at
\* most maxlen of them are read, the others stay for the next read
ssl_nonblock_read(bytes, maxlen) ==
    IF Len(bytes) <= maxlen THEN bytes ELSE SubSeq(bytes, 1, maxlen)

\* one pass of while (readable) with the buffer: the read is into
\* data - rsv_hdr_size and of at most receive_mtu + rsv_hdr_size bytes; left
\* is the number of bytes still in the transport; past_buffer tells that the
\* memmove of a payload behind a header shorter than expected wrote beyond
\* data + receive_mtu
read_buffered(M, bytes, work) ==
    LET rsv_hdr_size == M.ppp.encap_len + M.ppp.exp_ppp_hdr_size
        got == ssl_nonblock_read(bytes, receive_mtu(M) + rsv_hdr_size)
        r == read_frame(M, got, work)
        queued == Len(r.M.vpn.incoming_queue) > Len(M.vpn.incoming_queue)
        moved == queued /\ r.M.ppp.exp_ppp_hdr_size # M.ppp.exp_ppp_hdr_size
    IN [M |-> r.M, next |-> r.next, site |-> r.site, work |-> r.work,
        left |-> Len(bytes) - Len(got),
        past_buffer |-> moved /\ Len(r.M.vpn.incoming_queue[
                                         Len(r.M.vpn.incoming_queue)]) > receive_mtu(M)]

\* ------------------------------------------------------------ ppp_mainloop: outgoing
\* store PPP header, in reverse, and the pre-PPP header: the packet with its
\* header bytes data[-hlen..-1]
stamp_header(ppp, this, proto) ==
    LET p1 == <<proto % 256>>
        p2 == IF proto > 255 \/ PFCOMP \notin ppp.out_lcp_opts
              THEN <<proto \div 256>> \o p1 ELSE p1
        p3 == IF proto = PPP_LCP \/ ACCOMP \notin ppp.out_lcp_opts
              THEN <<255, 3>> \o p2 ELSE p2
        p4 == IF ppp.encap = PPP_ENCAP_F5
              THEN <<245, 0>> \o store_be16(Len(this.data) + Len(p3)) \o p3
              ELSE p3
    IN [this EXCEPT !.hdr = p4, !.hlen = Len(p4)]

\* proto of an IP packet taken from the outgoing queue
ip_proto(this) ==
    IF Len(this.data) # 0 /\ this.data[1] \div 16 = 6 THEN PPP_IP6 ELSE PPP_IP

\* switch (keepalive_action(...)) for the results that do not reconnect
keepalive_enqueue(M, ka) ==
    CASE ka = KA_KEEPALIVE ->
           IF \/ M.vpn.tcp_control_queue # <<>>
              \/ /\ M.vpn.dtls_state # DTLS_CONNECTED
                 /\ M.ppp.ppp_state = PPPS_NETWORK
                 /\ M.vpn.outgoing_queue # <<>>
           THEN M
           ELSE queue_config_packet([M EXCEPT !.ppp.util_id = (@ + 1) % 256],
                                    PPP_LCP, M.ppp.util_id, DISCREQ, <<>>)
      [] ka = KA_DPD ->
           queue_config_packet([M EXCEPT !.ppp.util_id = (@ + 1) % 256],
                               PPP_LCP, M.ppp.util_id, ECHOREQ, M.ppp.out_lcp_magic)
      [] OTHER -> M

\* variant: the outgoing packet queue is served before the control queue
dequeue_outgoing_data_first(M) ==
    IF /\ M.vpn.dtls_state # DTLS_CONNECTED
       /\ M.ppp.ppp_state = PPPS_NETWORK
       /\ M.vpn.outgoing_queue # <<>>
    THEN LET this == Head(M.vpn.outgoing_queue)
         IN [M EXCEPT !.vpn.outgoing_queue = Tail(@),
                      !.vpn.current_ssl_pkt =
                          <<stamp_header(M.ppp, this, ip_proto(this))>>]
    ELSE IF M.vpn.tcp_control_queue # <<>>
    THEN LET this == Head(M.vpn.tcp_control_queue)
         IN [M EXCEPT !.vpn.tcp_control_queue = Tail(@),
                      !.vpn.current_ssl_pkt =
                          <<stamp_header(M.ppp, this, this.proto)>>]
    ELSE [M EXCEPT !.vpn.current_ssl_pkt = NoPkt]

\* Service control queue; also, outgoing packet queue, if no DTLS
dequeue_outgoing(M) ==
    IF M.vpn.tcp_control_queue # <<>>
    THEN LET this == Head(M.vpn.tcp_control_queue)
         IN [M EXCEPT !.vpn.tcp_control_queue = Tail(@),
                      !.vpn.current_ssl_pkt =
                          <<stamp_header(M.ppp, this, this.proto)>>]
    ELSE IF /\ M.vpn.dtls_state # DTLS_CONNECTED
            /\ M.ppp.ppp_state = PPPS_NETWORK
            /\ M.vpn.outgoing_queue # <<>>
    THEN LET this == Head(M.vpn.outgoing_queue)
         IN [M EXCEPT !.vpn.outgoing_queue = Tail(@),
                      !.vpn.current_ssl_pkt =
                          <<stamp_header(M.ppp, this, ip_proto(this))>>]
    ELSE [M EXCEPT !.vpn.current_ssl_pkt = NoPkt]

\* ------------------------------------------------------------ the peer's frames
\* a PPP frame in the F5 encapsulation: F5 00, the 16-bit length, the frame
F5(body) == <<245, 0>> \o store_be16(Len(body)) \o body

\* an uncompressed control frame: FF 03, protocol, code, id, length, payload
Ctl(proto, code, id, payload) ==
    <<255, 3>> \o store_be16(proto) \o <<code, id>> \o
        store_be16(4 + Len(payload)) \o payload

MagicBeef == <<222, 173, 190, 239>>
MagicOnes == <<255, 255, 255, 255>>

\* LCP Configure-Request id 1: MTU 1500, the magic, PFCOMP, ACCOMP
LcpReqFull == F5(Ctl(PPP_LCP, CONFREQ, 1,
                     <<1, 4, 5, 220>> \o <<5, 6>> \o MagicBeef \o <<7, 2, 8, 2>>))
\* LCP Configure-Request id 2: only a magic, the complement of zero
LcpReqOnes == F5(Ctl(PPP_LCP, CONFREQ, 2, <<5, 6>> \o MagicOnes))
\* LCP Configure-Request id 3 with an option the engine does not know (tag 3)
LcpReqUnknown == F5(Ctl(PPP_LCP, CONFREQ, 3, <<3, 4, 192, 35>>))
LcpAck == F5(Ctl(PPP_LCP, CONFACK, 1, <<>>))
IpcpReq == F5(Ctl(PPP_IPCP, CONFREQ, 1, <<3, 6, 10, 0, 0, 1>>))
IpcpAck == F5(Ctl(PPP_IPCP, CONFACK, 1, <<3, 6, 10, 0, 0, 2>>))
Ip6cpReq == F5(Ctl(PPP_IP6CP, CONFREQ, 1, <<1, 10, 0, 0, 0, 0, 0, 0, 0, 1>>))
Ip6cpAck == F5(Ctl(PPP_IP6CP, CONFACK, 1, <<>>))

TermReqFrame(proto, id, text) == F5(Ctl(proto, TERMREQ, id, text))
TermAckFrame(proto, id) == F5(Ctl(proto, TERMACK, id, <<>>))
EchoReqFrame(proto, id, payload) == F5(Ctl(proto, ECHOREQ, id, payload))
RejectFrame(proto, code) == F5(Ctl(proto, code, 1, <<>>))

\* IPv4 and IPv6 data frames, with and without the compressed header
Ip4Frame == F5(<<255, 3, 0, 33, 69, 0, 0, 20>>)
Ip4FrameShort == F5(<<33, 69, 0, 0, 20>>)
Ip6Frame == F5(<<255, 3, 0, 87, 96, 0, 0, 0>>)

\* malformed frames
ShortFrame == <<245, 0, 0, 3, 255, 3, 192>>
BadMagicFrame == <<244, 0, 0, 8>> \o Ctl(PPP_LCP, CONFACK, 1, <<>>)
BadLenFrame == <<245, 0, 0, 9>> \o Ctl(PPP_LCP, CONFACK, 1, <<>>)
NoAddrCtlFrame == F5(<<192, 33, CONFACK, 1, 0, 4>>)
BadCtlLenFrame == F5(<<255, 3, 192, 33, CONFACK, 1, 0, 5>>)
UnknownProtoFrame == F5(<<255, 3, 192, 35, 1, 1, 0, 4>>)

\* the Terminate-Requests and Echo-Requests a peer sends: protocol, id, payload
TermReqCases ==
    {<<PPP_LCP, 7, <<98, 121, 101>>>>, <<PPP_IPCP, 9, <<>>>>, <<PPP_IP6CP, 200, <<>>>>}

EchoReqCases ==
    {<<PPP_LCP, 5, <<1, 2, 3, 4>>>>, <<PPP_LCP, 6, <<>>>>,
     <<PPP_IPCP, 77, <<9, 9, 9, 9, 9>>>>}

RejectFrames ==
    {RejectFrame(PPP_LCP, CONFNAK), RejectFrame(PPP_IPCP, CONFREJ),
     RejectFrame(PPP_LCP, CODEREJ), RejectFrame(PPP_IP6CP, PROTREJ)}

MalformedFrames ==
    {ShortFrame, BadMagicFrame, BadLenFrame, NoAddrCtlFrame, BadCtlLenFrame,
     UnknownProtoFrame}

NegotiationFrames ==
    {LcpReqFull, LcpReqOnes, LcpAck, IpcpReq, IpcpAck, Ip6cpReq, Ip6cpAck}

\* Configure-Requests: protocol, id, options
ConfReqCases ==
    {<<PPP_LCP, 1, <<1, 4, 5, 220>> \o <<5, 6>> \o MagicBeef \o <<7, 2, 8, 2>>>>,
     <<PPP_LCP, 2, <<5, 6>> \o MagicOnes>>,
     <<PPP_LCP, 3, <<3, 4, 192, 35>>>>,
     <<PPP_LCP, 4, <<3, 8, 192, 35>>>>,
     <<PPP_LCP, 5, <<7, 2, 3, 4, 192, 35>>>>,
     <<PPP_IPCP, 1, <<3, 6, 10, 0, 0, 1>>>>,
     <<PPP_IPCP, 2, <<2, 4, 0, 45>>>>,
     <<PPP_IPCP, 3, <<2, 4, 0, 46>>>>,
     <<PPP_IP6CP, 1, <<1, 10, 0, 0, 0, 0, 0, 0, 0, 1>>>>}

ConfReqFrame(c) == F5(Ctl(c[1], CONFREQ, c[2], c[3]))

\* n copies of the magic-number option
RECURSIVE MagicOptions(_)
MagicOptions(n) == IF n = 0 THEN <<>> ELSE <<5, 6>> \o MagicBeef \o MagicOptions(n - 1)

\* LCP Configure-Request id 6 whose options are n magic-number options
LcpReqLong(n) == F5(Ctl(PPP_LCP, CONFREQ, 6, MagicOptions(n)))

\* requests whose Configure-Ack is of 64 and of 70 bytes
LongFrames == {LcpReqLong(10), LcpReqLong(11)}

PeerKinds == {"negotiate", "terminate", "echo", "reject", "malformed", "data"}


\* the frames a peer of each kind may send
PeerFrames(kind) ==
    CASE kind = "negotiate" -> NegotiationFrames \cup {LcpReqUnknown}
      [] kind = "basic" -> {LcpReqFull, LcpAck}
      [] kind = "terminate" ->
           {LcpReqFull, LcpAck, TermAckFrame(PPP_LCP, 4)} \cup
           {TermReqFrame(c[1], c[2], c[3]) : c \in TermReqCases}
      [] kind = "echo" ->
           {LcpReqFull, LcpAck,
            F5(Ctl(PPP_LCP, ECHOREP, 1, <<0, 0, 0, 0>>)),
            F5(Ctl(PPP_LCP, DISCREQ, 1, <<>>))} \cup
           {EchoReqFrame(c[1], c[2], c[3]) : c \in EchoReqCases}
      [] kind = "reject" -> {LcpReqFull, LcpAck} \cup RejectFrames
      [] kind = "malformed" -> {LcpReqFull, LcpAck} \cup MalformedFrames
      [] kind = "data" ->
           {LcpReqFull, LcpAck, Ip4Frame, Ip4FrameShort, Ip6Frame}
      [] kind = "confreq" -> {ConfReqFrame(c) : c \in ConfReqCases}
      [] kind = "long" -> {LcpReqFull, LcpAck, EchoReqFrame(PPP_LCP, 5, <<1, 2, 3, 4>>),
                           TermReqFrame(PPP_LCP, 7, <<98, 121, 101>>)} \cup LongFrames

\* IP packets the host sends: an IPv4 and an IPv6 header start
HostPackets == {<<69, 0>>, <<96, 0>>}

\* ------------------------------------------------------------ state
VARIABLES
    ppp,        \* struct oc_ppp
    vpninfo,    \* the fields of struct openconnect_info that ppp.c uses
    pc,         \* where the current ppp_mainloop call is: idle, read, write, ka
    work_done,  \* ppp_mainloop: int work_done
    ret,        \* ppp_mainloop: int ret
    retval,     \* what the ppp_mainloop call that has just returned returned
    retsite,    \* which return statement it left by, "none" after the host's next step
    clock,      \* time(NULL)
    peer,       \* the peer: the kind of frames it may send, or the frames it
                \* sends in order (script)
    rxcount,    \* frames read so far
    outcount,   \* IP packets the host has queued so far
    faults,     \* transport faults so far
    rxframe,    \* the bytes of the last read, <<>> before the first
    txres,      \* the result of the transport write of the last step, or "none"
    wrote_data, \* an IP data packet has been written in the current call
    last_confreq, \* per NCP, the clock of the last Configure-Request enqueued
    call        \* a function of ppp.c applied on its own: its name, its
                \* arguments and, once it has returned, its result

vars == <<ppp, vpninfo, pc, work_done, ret, retval, retsite, clock, peer,
          rxcount, outcount, faults, rxframe, txres, wrote_data, last_confreq, call>>

\* ------------------------------------------------------------ the session
\* openconnect_ppp_new(encap, want_ipv4, want_ipv6) after calloc
openconnect_ppp_new(encap, want_ipv4, want_ipv6) ==
    [encap |-> encap,
     encap_len |-> IF encap = PPP_ENCAP_F5 THEN 4 ELSE 0,
     hdlc |-> IF encap = PPP_ENCAP_F5_HDLC THEN 1 ELSE 0,
     want_ipv4 |-> want_ipv4,
     want_ipv6 |-> want_ipv6,
     ppp_state |-> PPPS_DEAD,
     lcp |-> new_ncp, ipcp |-> new_ncp, ip6cp |-> new_ncp,
     out_asyncmap |-> <<0, 0, 0, 0>>,
     out_lcp_opts |-> {},
     out_lcp_magic |-> <<0, 0, 0, 0>>,
     out_peer_addr |-> <<0, 0, 0, 0>>,
     out_ipv6_int_ident |-> <<0, 0, 0, 0, 0, 0, 0, 0>>,
     util_id |-> 0,
     exp_ppp_hdr_size |-> 4,
     in_asyncmap |-> <<0, 0, 0, 0>>,
     in_lcp_opts |-> {},
     in_lcp_magic |-> <<0, 0, 0, 0>>,
     in_peer_addr |-> <<0, 0, 0, 0>>,
     in_ipv6_int_ident |-> <<0, 0, 0, 0, 0, 0, 0, 0>>]

\* the host's side of a new session: transport open, queues empty
new_vpninfo(dtls) ==
    [ssl_fd |-> 1,
     quit_reason |-> NoReason,
     ip_info |-> [mtu |-> 0, addr |-> <<10, 0, 0, 2>>,
                  addr6 |-> <<254, 128, 0, 0, 0, 0, 0, 0, 0, 17, 34, 51, 68, 85, 102, 119>>],
     tcp_control_queue |-> <<>>,
     outgoing_queue |-> <<>>,
     incoming_queue |-> <<>>,
     current_ssl_pkt |-> NoPkt,
     dtls_state |-> dtls]

\* no function is applied on its own
NoCall == [fn |-> "none"]

InitSession(peers, encaps, want4, want6, dtls) ==
    /\ \E e \in encaps, w4 \in want4, w6 \in want6 :
           ppp = openconnect_ppp_new(e, w4, w6)
    /\ \E d \in dtls : vpninfo = new_vpninfo(d)
    /\ peer \in peers
    /\ pc = "idle"
    /\ work_done = 0
    /\ ret = 0
    /\ retval = 0
    /\ retsite = "none"
    /\ clock = StartClock
    /\ rxcount = 0
    /\ outcount = 0
    /\ faults = 0
    /\ rxframe = <<>>
    /\ txres = "none"
    /\ wrote_data = FALSE
    /\ last_confreq = [p \in {PPP_LCP, PPP_IPCP, PPP_IP6CP} |-> -1]

InitWith(peers, encaps, want4, want6, dtls) ==
    /\ InitSession(peers, encaps, want4, want6, dtls)
    /\ call = NoCall

Peers(kinds) == {[kind |-> k, script |-> <<>>] : k \in kinds}

Init == InitWith(Peers({"basic"}), {PPP_ENCAP_F5}, BOOLEAN, {FALSE}, {DTLS_OTHER})

\* ------------------------------------------------------------ steps of ppp_mainloop
Cur == [ppp |-> ppp, vpn |-> vpninfo, ret |-> ret]

\* the call goes on at `at` in state M
Continue(M, at) ==
    /\ ppp' = M.ppp
    /\ vpninfo' = M.vpn
    /\ ret' = M.ret
    /\ pc' = at
    /\ retval' = 0
    /\ retsite' = "none"

\* a return statement: the call is over
Return(M, value, site) ==
    /\ ppp' = M.ppp
    /\ vpninfo' = M.vpn
    /\ ret' = 0
    /\ pc' = "idle"
    /\ work_done' = 0
    /\ retval' = value
    /\ retsite' = site

\* goto do_reconnect
Reconnect ==
    \E rc \in {0, -1} :
        LET M == do_reconnect(Cur, rc) IN Return(M, M.ret, "reconnect")

\* if (vpninfo->current_ssl_pkt) after the read loop
AfterRead(M) == IF M.vpn.current_ssl_pkt # NoPkt THEN "write" ELSE "ka"

IsConfReq(p, proto) == p.proto = proto /\ p.data[1] = CONFREQ

\* the Configure-Requests for proto that the control queue gained
NewConfReqs(before, after, proto) ==
    {i \in (Len(before) + 1)..Len(after) : IsConfReq(after[i], proto)}

\* entry with the argument readable: the closed transport, the state switch
EnterWith(readable) ==
    /\ pc = "idle"
    /\ rxframe' = <<>>
    /\ txres' = "none"
    /\ wrote_data' = FALSE
    /\ UNCHANGED <<call, clock, peer, rxcount, outcount, faults>>
    /\ IF vpninfo.ssl_fd = -1
       THEN Reconnect /\ UNCHANGED last_confreq
       ELSE \E sw \in {state_switch(Cur, clock)} :
               /\ last_confreq' =
                      [p \in DOMAIN last_confreq |->
                         IF NewConfReqs(vpninfo.tcp_control_queue,
                                        sw.M.vpn.tcp_control_queue, p) # {}
                         THEN clock ELSE last_confreq[p]]
               /\ IF sw.returned
                  THEN Return(sw.M, sw.M.ret, "state")
                  ELSE /\ Continue([sw.M EXCEPT !.ret = 0],
                                   IF readable THEN "read" ELSE AfterRead(sw.M))
                       /\ work_done' = 0

Enter == \E readable \in BOOLEAN : EnterWith(readable)

\* ssl_nonblock_read returned the bytes of frame
ReadBytes(frame) ==
    /\ pc = "read"
    /\ rxframe' = frame
    /\ rxcount' = rxcount + 1
    /\ LET r == read_frame(Cur, frame, work_done)
       IN IF r.next = "return"
          THEN Return(r.M, r.M.ret, r.site)
          ELSE Continue(r.M, "read") /\ work_done' = r.work
    /\ UNCHANGED <<call, clock, peer, outcount, faults, txres, wrote_data, last_confreq>>

\* the peer sends any of its frames
ReadFrame ==
    /\ rxcount < MaxFrames
    /\ \E frame \in PeerFrames(peer.kind) : ReadBytes(frame)

\* the engine's Configure-Request for proto has gone out on the transport
RequestWritten(proto) ==
    /\ NCP_CONF_REQ_SENT \in ncp_of(ppp, proto).state
    /\ \A i \in 1..Len(vpninfo.tcp_control_queue) :
           ~IsConfReq(vpninfo.tcp_control_queue[i], proto)
    /\ \A i \in 1..Len(vpninfo.current_ssl_pkt) :
           ~IsConfReq(vpninfo.current_ssl_pkt[i], proto)

\* a Configure-Ack answers a Configure-Request the peer has got
Solicited(frame) ==
    (Len(frame) >= 9 /\ frame[9] = CONFACK) => RequestWritten(load_be16(frame, 7))

\* the peer sends the next frame of its script
ReadScripted ==
    /\ rxcount < Len(peer.script)
    /\ Solicited(peer.script[rxcount + 1])
    /\ ReadBytes(peer.script[rxcount + 1])

\* ssl_nonblock_read returned 0: the loop breaks
ReadWouldBlock ==
    /\ pc = "read"
    /\ pc' = AfterRead(Cur)
    /\ UNCHANGED <<call, ppp, vpninfo, work_done, ret, retval, retsite, clock, peer,
                   rxcount, outcount, faults, rxframe, txres, wrote_data,
                   last_confreq>>

\* ssl_nonblock_read returned an error: goto do_reconnect
ReadError ==
    /\ pc = "read"
    /\ faults < MaxFaults
    /\ faults' = faults + 1
    /\ Reconnect
    /\ UNCHANGED <<call, clock, peer, rxcount, outcount, rxframe, txres, wrote_data,
                   last_confreq>>

CurPkt == vpninfo.current_ssl_pkt[1]

\* the bytes handed to ssl_nonblock_write: from data - hlen, len + hlen of them
WriteBytes(p) == p.hdr \o p.data

\* a packet of the control queue carries its protocol; the host's IP packets
\* carry none
IsControl(p) == IsNcpProto(p.proto)

\* ssl_nonblock_write wrote the whole packet: it is freed
WriteFull ==
    /\ pc = "write"
    /\ txres' = "full"
    /\ wrote_data' = (wrote_data \/ ~IsControl(CurPkt))
    /\ vpninfo' = [vpninfo EXCEPT !.current_ssl_pkt = NoPkt]
    /\ pc' = "ka"
    /\ UNCHANGED <<call, ppp, work_done, ret, retval, retsite, clock, peer,
                   rxcount, outcount, faults, rxframe, last_confreq>>

\* the code after ssl_nonblock_write returned 0 and ka_stalled_action did not
\* report a dead peer: the length check
after_would_block(M) ==
    IF 0 # Len(M.vpn.current_ssl_pkt[1].data) + M.vpn.current_ssl_pkt[1].hlen
    THEN [M |-> [M EXCEPT !.vpn.quit_reason = Reason("Internal error"), !.ret = 1],
          returned |-> TRUE]
    ELSE [M |-> [M EXCEPT !.vpn.current_ssl_pkt = NoPkt], returned |-> FALSE]

\* ssl_nonblock_write returned 0: ka_stalled_action, then the length check
WriteWouldBlock ==
    /\ pc = "write"
    /\ faults < MaxFaults
    /\ faults' = faults + 1
    /\ \E stalled \in {KA_NONE, KA_REKEY, KA_DPD_DEAD} :
         IF stalled = KA_DPD_DEAD
         THEN txres' = "block_dead" /\ Reconnect
         ELSE /\ txres' = "block"
              /\ LET r == after_would_block(Cur)
                 IN IF r.returned
                    THEN Return(r.M, r.M.ret, "wrote_too_few")
                    ELSE Continue(r.M, "ka") /\ UNCHANGED work_done
    /\ UNCHANGED <<call, clock, peer, rxcount, outcount, rxframe, wrote_data,
                   last_confreq>>

\* ssl_nonblock_write returned an error: goto do_reconnect
WriteError ==
    /\ pc = "write"
    /\ faults < MaxFaults
    /\ faults' = faults + 1
    /\ txres' = "error"
    /\ Reconnect
    /\ UNCHANGED <<call, clock, peer, rxcount, outcount, rxframe, wrote_data,
                   last_confreq>>

\* keepalive_action returned ka, which is not KA_DPD_DEAD or KA_REKEY: the
\* switch, then the dequeue of the next packet to write
KeepaliveStep(ka) ==
    /\ pc = "ka"
    /\ txres' = "none"
    /\ LET M == dequeue_outgoing(keepalive_enqueue(Cur, ka))
       IN IF M.vpn.current_ssl_pkt # NoPkt
          THEN Continue(M, "write") /\ UNCHANGED work_done
          ELSE Return(M, work_done, "work_done")
    /\ UNCHANGED <<call, clock, peer, rxcount, outcount, faults, rxframe, wrote_data,
                   last_confreq>>

\* nothing is due
KeepaliveNone == KeepaliveStep(KA_NONE)

\* a keepalive or a DPD probe is due
KeepaliveDue ==
    /\ ppp.util_id < MaxKa
    /\ \E ka \in {KA_KEEPALIVE, KA_DPD} : KeepaliveStep(ka)

\* the peer is dead or a rekey is due: goto do_reconnect
KeepaliveReconnect ==
    /\ pc = "ka"
    /\ faults < MaxFaults
    /\ faults' = faults + 1
    /\ txres' = "none"
    /\ Reconnect
    /\ UNCHANGED <<call, clock, peer, rxcount, outcount, rxframe, wrote_data,
                   last_confreq>>

\* ------------------------------------------------------------ the host
\* what is recorded about the call that has just returned is kept only until
\* the host's next step
Forget ==
    /\ retval' = 0
    /\ retsite' = "none"
    /\ rxframe' = <<>>
    /\ txres' = "none"
    /\ wrote_data' = FALSE

\* a second passes between two calls
Tick ==
    /\ pc = "idle"
    /\ clock < StartClock + MaxTicks
    /\ clock' = clock + 1
    /\ Forget
    /\ UNCHANGED <<call, ppp, vpninfo, pc, work_done, ret, peer, rxcount, outcount,
                   faults, last_confreq>>

\* the host's producer queues an IP packet from the tun device
HostSend ==
    /\ pc = "idle"
    /\ outcount < MaxOut
    /\ \E d \in HostPackets :
         vpninfo' = [vpninfo EXCEPT !.outgoing_queue = Append(@, Pkt(0, d))]
    /\ outcount' = outcount + 1
    /\ Forget
    /\ UNCHANGED <<call, ppp, pc, work_done, ret, clock, peer, rxcount, faults,
                   last_confreq>>

\* the transport is closed between two calls
TransportClosed ==
    /\ pc = "idle"
    /\ vpninfo.ssl_fd # -1
    /\ faults < MaxFaults
    /\ faults' = faults + 1
    /\ vpninfo' = [vpninfo EXCEPT !.ssl_fd = -1]
    /\ Forget
    /\ UNCHANGED <<call, ppp, pc, work_done, ret, clock, peer, rxcount, outcount,
                   last_confreq>>

\* struct pkt *p = malloc(sizeof(struct pkt) + 64) in queue_config_packet:
\* the packet's data, 4 + len bytes, is within the allocation
within_malloc(p) == Len(p.data) <= 64

\* the control packets that queue_config_packet built and that are not freed
ControlPackets ==
    {vpninfo.tcp_control_queue[i] : i \in 1..Len(vpninfo.tcp_control_queue)} \cup
    {p \in {vpninfo.current_ssl_pkt[i] : i \in 1..Len(vpninfo.current_ssl_pkt)} :
        IsControl(p)}

\* memcpy(p->data + 4, payload, len) wrote beyond the allocation: the call may
\* go on as if nothing had happened, or the damaged heap ends the process
HeapOverrun ==
    /\ pc # "crashed"
    /\ \E p \in ControlPackets : ~within_malloc(p)
    /\ pc' = "crashed"
    /\ UNCHANGED <<call, ppp, vpninfo, work_done, ret, retval, retsite, clock, peer,
                   rxcount, outcount, faults, rxframe, txres, wrote_data, last_confreq>>

\* ------------------------------------------------------------ specifications
\* a call on a transport that neither fails nor blocks, with no keepalive due
Quiet ==
    \/ Enter
    \/ ReadFrame
    \/ ReadWouldBlock
    \/ WriteFull
    \/ KeepaliveNone

\* every step of the engine, the transport and the host
Next ==
    \/ Quiet
    \/ ReadError
    \/ WriteWouldBlock
    \/ WriteError
    \/ KeepaliveDue
    \/ KeepaliveReconnect
    \/ Tick
    \/ HostSend
    \/ TransportClosed

\* the whole system against a peer that only negotiates LCP
Spec == Init /\ [][Next]_vars

\* every kind of peer on a quiet transport
InitFrames == InitWith(Peers(PeerKinds), {PPP_ENCAP_F5}, BOOLEAN, BOOLEAN, {DTLS_OTHER})

SpecFrames == InitFrames /\ [][Quiet]_vars

\* a peer that negotiates and carries IP data, with the host sending packets
\* and keepalives falling due, over TCP alone or with DTLS connected
InitData ==
    InitWith(Peers({"data"}), {PPP_ENCAP_F5}, BOOLEAN, BOOLEAN,
             {DTLS_OTHER, DTLS_CONNECTED})

NextData == Quiet \/ HostSend \/ KeepaliveDue

SpecData == InitData /\ [][NextData]_vars

\* a peer that sends each frame of a negotiation once, in any order
RECURSIVE Perms(_)
Perms(S) ==
    IF S = {} THEN {<<>>}
    ELSE UNION {{<<x>> \o t : t \in Perms(S \ {x})} : x \in S}

Ip4Exchange == {LcpReqFull, LcpAck, IpcpReq, IpcpAck}

Ip6Exchange == {Ip6cpReq, Ip6cpAck}

\* the LCP and IPCP frames in any order
Ip4Scripts == Perms(Ip4Exchange)

\* the LCP and IPCP frames in their usual order with the IP6CP frames before,
\* after or among them
Ip4Script == <<LcpReqFull, LcpAck, IpcpReq, IpcpAck>>

Ip6Scripts ==
    {Ip4Script \o <<Ip6cpReq, Ip6cpAck>>,
     Ip4Script \o <<Ip6cpAck, Ip6cpReq>>,
     <<Ip6cpReq, Ip6cpAck>> \o Ip4Script,
     <<LcpReqFull, Ip6cpAck, LcpAck, IpcpReq, Ip6cpReq, IpcpAck>>}

Scripted(scripts) == {[kind |-> "script", script |-> sc] : sc \in scripts}

\* the peer negotiates what the engine wants, or leaves IP6CP out
InitLive ==
    \/ InitWith(Scripted(Ip4Scripts), {PPP_ENCAP_F5}, {TRUE}, BOOLEAN, {DTLS_OTHER})
    \/ InitWith(Scripted(Ip6Scripts), {PPP_ENCAP_F5}, {TRUE}, {TRUE}, {DTLS_OTHER})

NextLive ==
    \/ EnterWith(TRUE)
    \/ EnterWith(FALSE)
    \/ ReadScripted
    \/ ReadWouldBlock
    \/ WriteFull
    \/ KeepaliveNone

\* the host keeps calling ppp_mainloop, with readable set again and again
\* while the peer's bytes wait, and the transport delivers them
SpecLive ==
    /\ InitLive
    /\ [][NextLive]_vars
    /\ SF_vars(EnterWith(TRUE))
    /\ SF_vars(ReadScripted)
    /\ WF_vars(ReadWouldBlock)
    /\ WF_vars(WriteFull)
    /\ WF_vars(KeepaliveNone)

\* a peer that sends Configure-Requests only
InitConfReq == InitWith(Peers({"confreq"}), {PPP_ENCAP_F5}, {TRUE}, {TRUE}, {DTLS_OTHER})

SpecConfReq == InitConfReq /\ [][Quiet]_vars

\* a session created with the F5 HDLC encapsulation
InitF5Hdlc ==
    InitWith(Peers({"basic", "negotiate"}), {PPP_ENCAP_F5_HDLC}, BOOLEAN, BOOLEAN,
             {DTLS_OTHER})

SpecF5Hdlc == InitF5Hdlc /\ [][Quiet]_vars

\* a peer that terminates, on a transport that may block or close, with the
\* host sending
InitTerm == InitWith(Peers({"terminate"}), {PPP_ENCAP_F5}, {TRUE}, {FALSE}, {DTLS_OTHER})

NextTerm ==
    \/ Quiet
    \/ WriteWouldBlock
    \/ HostSend
    \/ TransportClosed

SpecTerm == InitTerm /\ [][NextTerm]_vars

\* a peer that sends Configure-Requests of 60 and 66 bytes of options
InitAlloc == InitWith(Peers({"long"}), {PPP_ENCAP_F5}, BOOLEAN, BOOLEAN, {DTLS_OTHER})

NextAlloc ==
    \/ Quiet
    \/ KeepaliveDue
    \/ HeapOverrun

SpecAlloc == InitAlloc /\ [][NextAlloc]_vars

\* ------------------------------------------------------------ functions on their own
\* the session stands still while a function is applied on its own
SessionIdle ==
    UNCHANGED <<ppp, vpninfo, pc, work_done, ret, retval, retsite, clock, peer,
                rxcount, outcount, faults, rxframe, txres, wrote_data, last_confreq>>

InitIdle == InitSession(Peers({"basic"}), {PPP_ENCAP_F5}, {TRUE}, {FALSE}, {DTLS_OTHER})

\* bytes of each class of NEED_ESCAPE: below 0x20, plain, 0x7d, 0x7e
HdlcBytes == {1, 65, 125, 126}

\* asyncmaps: none, bit 0 only, all
HdlcMaps == {<<0, 0, 0, 0>>, <<0, 0, 0, 1>>, ASYNCMAP_LCP}

ByteSeqs(S, n) == UNION {[1..k -> S] : k \in 0..n}

\* a call of buf_append_ppphdlc(buf, bytes, len, asyncmap) on a buffer that is
\* empty or holds a byte
InitHdlc ==
    /\ InitIdle
    /\ \E buf \in {<<>>, <<126>>}, b \in ByteSeqs(HdlcBytes, MaxLen), m \in HdlcMaps :
           call = [fn |-> "buf_append_ppphdlc", buf |-> buf, bytes |-> b,
                   asyncmap |-> m, returned |-> FALSE, out |-> <<>>]

\* the call runs: the buffer holds what the function appended
AppendHdlc ==
    /\ call.fn = "buf_append_ppphdlc"
    /\ ~call.returned
    /\ call' = [call EXCEPT !.out = buf_append_ppphdlc(call.buf, call.bytes,
                                                       call.asyncmap),
                            !.returned = TRUE]
    /\ SessionIdle

NextHdlc == AppendHdlc

SpecHdlc == InitHdlc /\ [][NextHdlc]_vars

\* bytes a PPP header is made of: FF 03, the two bytes of LCP, the first
\* byte and the one-byte form of IPv4
HeaderBytes == {255, 3, 192, 33, 0}

\* a call of the header parsing of ppp_mainloop on the first bytes after the
\* encapsulation header, under each combination of ACCOMP and PFCOMP
InitHeader ==
    /\ InitIdle
    /\ \E opts \in SUBSET {ACCOMP, PFCOMP}, b \in [1..MaxHdr -> HeaderBytes] :
           call = [fn |-> "ppp_header", in_lcp_opts |-> opts, bytes |-> b,
                   returned |-> FALSE, out |-> <<>>]

ParseHeader ==
    /\ call.fn = "ppp_header"
    /\ ~call.returned
    /\ call' = [call EXCEPT !.out = ppp_header([ppp EXCEPT !.in_lcp_opts =
                                                    call.in_lcp_opts],
                                               call.bytes),
                            !.returned = TRUE]
    /\ SessionIdle

NextHeader == ParseHeader

SpecHeader == InitHeader /\ [][NextHeader]_vars

\* IP data frames: each form of the PPP header of IPv4, and payloads of a few
\* bytes and of about receive_mtu bytes
IpHeaders == {<<255, 3, 0, 33>>, <<255, 3, 33>>, <<0, 33>>, <<33>>}

PayloadLens == {4} \cup {16384 + d : d \in (0 - MaxSlack)..MaxSlack}

IpPayload(n) == [i \in 1..n |-> IF i = 1 THEN 69 ELSE 0]

\* a session in NETWORK under the options the peer advertised
InNetwork(opts) ==
    [Cur EXCEPT !.ppp.ppp_state = PPPS_NETWORK, !.ppp.in_lcp_opts = opts]

\* a pass of the read loop in NETWORK over an IP data frame whose header is
\* valid under in_lcp_opts, made under each value of exp_ppp_hdr_size
InitHint ==
    /\ InitIdle
    /\ \E opts \in SUBSET {ACCOMP, PFCOMP}, hdr \in IpHeaders, n \in PayloadLens :
           /\ \E h \in {ppp_header(InNetwork(opts).ppp, hdr \o <<69, 0, 0, 0>>)} :
                  ~h.bad /\ h.proto = PPP_IP
           /\ call = [fn |-> "read", in_lcp_opts |-> opts, hdr |-> hdr, len |-> n,
                      returned |-> FALSE, out |-> <<>>]

\* what the pass leaves, apart from exp_ppp_hdr_size; a write beyond the
\* buffer may or may not damage the heap
ReadUnderEachHint ==
    /\ call.fn = "read"
    /\ ~call.returned
    /\ \E damage \in BOOLEAN, frame \in {F5(call.hdr \o IpPayload(call.len))} :
           call' = [call EXCEPT
                       !.returned = TRUE,
                       !.out = [v \in 1..4 |->
                                  LET r == read_buffered(
                                               [InNetwork(call.in_lcp_opts) EXCEPT
                                                   !.ppp.exp_ppp_hdr_size = v],
                                               frame, 0)
                                  IN [hint |-> r.M.ppp.exp_ppp_hdr_size,
                                      ppp |-> [r.M.ppp EXCEPT !.exp_ppp_hdr_size = 0],
                                      vpn |-> r.M.vpn,
                                      next |-> r.next,
                                      work |-> r.work,
                                      left |-> r.left,
                                      heap_damaged |-> r.past_buffer /\ damage]]]
    /\ SessionIdle

NextHint == ReadUnderEachHint

SpecHint == InitHint /\ [][NextHint]_vars

\* ------------------------------------------------------------ properties
Last(q) == q[Len(q)]

\* the step reads a frame
ReadsFrame == pc = "read" /\ rxcount' = rxcount + 1

Flags(s) == <<s.lcp.state, s.ipcp.state, s.ip6cp.state>>

\* C1: whenever ppp_state is NETWORK, LCP has CONF_ACK_SENT and
\* CONF_ACK_RECEIVED, and so has IPCP if want_ipv4 is set and IP6CP if
\* want_ipv6 is set.
C1_NetworkImpliesOpen ==
    ppp.ppp_state = PPPS_NETWORK =>
        /\ HasBoth(ppp.lcp)
        /\ ppp.want_ipv4 => HasBoth(ppp.ipcp)
        /\ ppp.want_ipv6 => HasBoth(ppp.ip6cp)

Sent(frame) == \E i \in 1..Len(peer.script) : peer.script[i] = frame

Read(frame) == \E i \in 1..rxcount : peer.script[i] = frame

C3_TermReqAcked ==
    [][\A c \in TermReqCases :
          (ReadsFrame /\ rxframe' = TermReqFrame(c[1], c[2], c[3])) =>
              /\ ppp'.ppp_state = PPPS_TERMINATE
              /\ vpninfo'.tcp_control_queue =
                     Append(vpninfo.tcp_control_queue,
                            Pkt(c[1], <<TERMACK, c[2], 0, 4>>))]_vars

\* a Terminate-Request was read after LCP opened, and its Ack is queued
C3_Witness ==
    /\ rxframe = TermReqFrame(PPP_IPCP, 9, <<>>)
    /\ pc = "read"
    /\ HasBoth(ppp.lcp)
    /\ ppp.ppp_state = PPPS_TERMINATE
    /\ Last(vpninfo.tcp_control_queue) = Pkt(PPP_IPCP, <<TERMACK, 9, 0, 4>>)

\* C4: the step that reads an Echo-Request with id N appends exactly one
\* Echo-Reply with id N and the four bytes of out_lcp_magic to the control
\* queue if ppp_state is OPENED or later, and nothing if it is DEAD or
\* ESTABLISH; it changes neither ppp_state nor the NCP flag sets.
C4_EchoReply ==
    [][\A c \in EchoReqCases :
          (ReadsFrame /\ rxframe' = EchoReqFrame(c[1], c[2], c[3])) =>
              /\ vpninfo'.tcp_control_queue =
                     IF ppp.ppp_state >= PPPS_OPENED
                     THEN Append(vpninfo.tcp_control_queue,
                                 Pkt(c[1], <<ECHOREP, c[2], 0, 8>> \o ppp.out_lcp_magic))
                     ELSE vpninfo.tcp_control_queue
              /\ ppp'.ppp_state = ppp.ppp_state
              /\ Flags(ppp') = Flags(ppp)]_vars

\* an Echo-Request was read in NETWORK and its reply carries the magic the
\* engine sent in its Configure-Request
C4_Witness ==
    /\ rxframe = EchoReqFrame(PPP_LCP, 5, <<1, 2, 3, 4>>)
    /\ pc = "read"
    /\ ppp.ppp_state = PPPS_NETWORK
    /\ NCP_CONF_REQ_SENT \in ppp.lcp.state
    /\ vpninfo.tcp_control_queue # <<>>
    /\ Last(vpninfo.tcp_control_queue) =
           Pkt(PPP_LCP, <<ECHOREP, 5, 0, 8>> \o ppp.out_lcp_magic)

\* C5: the call that read a Configure-Nak, Configure-Reject, Code-Reject or
\* Protocol-Reject ends the session: it does not return by the ordinary
\* return of work_done, or it leaves ppp_state TERMINATE.
C5_RejectIsFatal ==
    (pc = "idle" /\ rxframe \in RejectFrames) =>
        retsite # "work_done" \/ ppp.ppp_state = PPPS_TERMINATE

\* C6: a call that ends on a fatal protocol violation (a short read, a missing
\* FF 03, a bad control length, an unknown protocol) returns 1 with
\* quit_reason set and leaves ppp_state TERMINATE.
C6_ViolationTerminates ==
    retsite \in {"short", "bad_ppp_pkt", "unknown_proto"} =>
        /\ retval = 1
        /\ vpninfo.quit_reason # NoReason
        /\ ppp.ppp_state = PPPS_TERMINATE

\* C7: the step in which the write returns would-block, and the peer is not
\* reported dead, keeps the packet in current_ssl_pkt, leaves quit_reason as
\* it was and does not return 1.
C7_WouldBlockRetains ==
    [][(pc = "write" /\ txres' = "block") =>
          /\ vpninfo'.current_ssl_pkt = vpninfo.current_ssl_pkt
          /\ vpninfo'.quit_reason = vpninfo.quit_reason
          /\ ~(pc' = "idle" /\ retval' = 1)]_vars

\* C8: once a data packet has been written in a call, no control packet is
\* handed to the transport later in that call.
C8_NoControlAfterData ==
    (pc = "write" /\ wrote_data) => ~IsControl(CurPkt)

\* C8, amended: each dequeue serves the control queue first. The packet taken
\* is the head of the control queue as the keepalive switch left it; a data
\* packet is taken only if that queue is empty, DTLS is not connected and the
\* state is NETWORK.
C8_ControlFirstAtDequeue ==
    [][(pc = "ka" /\ pc' = "write") =>
          LET this == vpninfo'.current_ssl_pkt[1]
              was == vpninfo.tcp_control_queue
              served == <<Pkt(this.proto, this.data)>> \o vpninfo'.tcp_control_queue
          IN IF IsControl(this)
             THEN /\ vpninfo'.outgoing_queue = vpninfo.outgoing_queue
                  /\ \/ served = was /\ ppp'.util_id = ppp.util_id
                     \/ /\ ppp'.util_id = ppp.util_id + 1
                        /\ Len(served) = Len(was) + 1
                        /\ SubSeq(served, 1, Len(was)) = was
                        /\ Last(served).proto = PPP_LCP
                        /\ Last(served).data[1] \in {ECHOREQ, DISCREQ}
                        /\ Last(served).data[2] = ppp.util_id
             ELSE /\ was = <<>>
                  /\ vpninfo'.tcp_control_queue = <<>>
                  /\ ppp'.util_id = ppp.util_id
                  /\ vpninfo.dtls_state # DTLS_CONNECTED
                  /\ ppp.ppp_state = PPPS_NETWORK
                  /\ vpninfo.outgoing_queue # <<>>
                  /\ this.data = Head(vpninfo.outgoing_queue).data
                  /\ vpninfo'.outgoing_queue = Tail(vpninfo.outgoing_queue)]_vars

\* a data packet has been written in this call and the DPD probe queued after
\* it is now being written
C8_Witness ==
    /\ pc = "write"
    /\ wrote_data
    /\ IsControl(CurPkt)
    /\ CurPkt.data[1] = ECHOREQ
    /\ ppp.ppp_state = PPPS_NETWORK

\* the call starts
EnterStep == pc = "idle" /\ UNCHANGED <<clock, outcount, faults>>

\* C9: a step enqueues at most one Configure-Request per NCP, and only 3
\* seconds or more after the last one for that NCP; and a call on an open
\* transport, with no LCP Configure-Ack received and the session not
\* terminated, enqueues an LCP Configure-Request if 3 seconds or more have
\* passed since the last one.
C9_Retransmit ==
    [][/\ \A p \in DOMAIN last_confreq :
            LET new == NewConfReqs(vpninfo.tcp_control_queue,
                                   vpninfo'.tcp_control_queue, p)
            IN new # {} =>
                  /\ Cardinality(new) = 1
                  /\ last_confreq[p] = -1 \/ clock >= last_confreq[p] + 3
       /\ (/\ EnterStep
           /\ vpninfo.ssl_fd # -1
           /\ ppp.ppp_state # PPPS_TERMINATE
           /\ NCP_CONF_ACK_RECEIVED \notin ppp.lcp.state
           /\ clock >= last_confreq[PPP_LCP] + 3)
          => NewConfReqs(vpninfo.tcp_control_queue,
                         vpninfo'.tcp_control_queue, PPP_LCP) # {}]_vars

\* C10: once the engine has sent an LCP Configure-Request, out_lcp_magic
\* differs from in_lcp_magic.
C10_MagicsDiffer ==
    NCP_CONF_REQ_SENT \in ppp.lcp.state => ppp.out_lcp_magic # ppp.in_lcp_magic

\* C11: under F5 encapsulation, the step that reads a frame of at least 8
\* bytes whose first two bytes are not F5 00, or whose length field plus 4
\* is not the number of bytes read, discards it: ppp_state, the NCP flag sets,
\* the negotiated parameters, quit_reason and the three queues are as before,
\* and the read loop goes on.
C11_BadF5Discarded ==
    [][\A f \in {BadMagicFrame, BadLenFrame} :
          (ReadsFrame /\ ppp.encap = PPP_ENCAP_F5 /\ rxframe' = f) =>
              /\ ppp' = ppp
              /\ vpninfo'.quit_reason = vpninfo.quit_reason
              /\ vpninfo'.incoming_queue = vpninfo.incoming_queue
              /\ vpninfo'.outgoing_queue = vpninfo.outgoing_queue
              /\ vpninfo'.tcp_control_queue = vpninfo.tcp_control_queue
              /\ pc' = "read"]_vars

\* a frame with a wrong length field was read in ESTABLISH after the peer's
\* Configure-Request, and the loop is reading on
C11_Witness ==
    /\ rxframe = BadLenFrame
    /\ pc = "read"
    /\ rxcount >= 2
    /\ ppp.ppp_state = PPPS_ESTABLISH
    /\ NCP_CONF_REQ_RECEIVED \in ppp.lcp.state
    /\ vpninfo.quit_reason = NoReason

\* bit c of a 32-bit asyncmap, held as its four bytes, most significant first
AsyncBit(c, map) == (map[4 - (c \div 8)] \div (2 ^ (c % 8))) % 2 = 1

\* the byte-stuffed form of a byte sequence
RECURSIVE Stuffed(_, _)
Stuffed(b, map) ==
    IF b = <<>> THEN <<>>
    ELSE LET c == Head(b)
         IN (IF (c < 32 /\ AsyncBit(c, map)) \/ c = 125 \/ c = 126
             THEN <<125, Xor32(c)>>
             ELSE <<c>>) \o Stuffed(Tail(b), map)

\* C12: for every byte sequence and every asyncmap, buf_append_ppphdlc
\* appends to the buffer exactly the byte-stuffed form of the sequence: 0x7d
\* and the byte XOR 0x20 for a byte below 0x20 whose bit is set in the
\* asyncmap and for 0x7d and 0x7e, the byte itself otherwise, none dropped.
C12_AppendsStuffed ==
    (call.fn = "buf_append_ppphdlc" /\ call.returned) =>
        call.out = call.buf \o Stuffed(call.bytes, call.asyncmap)

\* the (protocol, tag, length) triples of the options the engine knows; the
\* IPCP compression option is known for Van Jacobson compression only
KnownOption(proto, p) ==
    \/ proto = PPP_LCP /\ <<p[1], p[2]>> \in {<<1, 4>>, <<2, 6>>, <<5, 6>>, <<7, 2>>, <<8, 2>>}
    \/ proto = PPP_IPCP /\ <<p[1], p[2]>> = <<3, 6>>
    \/ proto = PPP_IPCP /\ Len(p) >= 4 /\ SubSeq(p, 1, 4) = <<2, 4, 0, 45>>
    \/ proto = PPP_IP6CP /\ <<p[1], p[2]>> = <<1, 10>>

\* every option of a Configure-Request payload is a known triple
RECURSIVE AllKnown(_, _)
AllKnown(proto, p) ==
    \/ p = <<>>
    \/ /\ Len(p) >= 2
       /\ KnownOption(proto, p)
       /\ p[2] <= Len(p)
       /\ AllKnown(proto, SubSeq(p, p[2] + 1, Len(p)))

IpFrameCases == {<<Ip4Frame, <<69, 0, 0, 20>>>>, <<Ip6Frame, <<96, 0, 0, 0>>>>}

\* C14: the step that reads an IPv4 or IPv6 data frame appends its packet to
\* the incoming queue if and only if ppp_state is NETWORK; in any other state
\* the frame is dropped, the incoming queue, ppp_state and the NCP flag sets
\* are as before and the read loop goes on.
C14_DataOnlyInNetwork ==
    [][\A c \in IpFrameCases :
          (ReadsFrame /\ rxframe' = c[1]) =>
              IF ppp.ppp_state = PPPS_NETWORK
              THEN vpninfo'.incoming_queue = Append(vpninfo.incoming_queue, c[2])
              ELSE /\ vpninfo'.incoming_queue = vpninfo.incoming_queue
                   /\ ppp'.ppp_state = ppp.ppp_state
                   /\ Flags(ppp') = Flags(ppp)
                   /\ pc' = "read"]_vars

\* an IPv6 frame read in NETWORK is on the incoming queue, behind an IPv4
\* frame that was dropped or queued before
C14_Witness ==
    /\ rxframe = Ip6Frame
    /\ pc = "read"
    /\ rxcount = 3
    /\ ppp.ppp_state = PPPS_NETWORK
    /\ vpninfo.incoming_queue # <<>>
    /\ Last(vpninfo.incoming_queue) = <<96, 0, 0, 0>>

\* an IPv4 frame read before NETWORK has been dropped
C14_WitnessDropped ==
    /\ rxframe = Ip4Frame
    /\ pc = "read"
    /\ ppp.ppp_state = PPPS_ESTABLISH
    /\ vpninfo.incoming_queue = <<>>

\* the PPP header of an outgoing packet under the options the peer advertised
EgressHeader(opts, proto) ==
    (IF proto = PPP_LCP \/ ACCOMP \notin opts THEN <<255, 3>> ELSE <<>>) \o
    (IF PFCOMP \in opts /\ proto <= 255 /\ proto % 2 = 1
     THEN <<proto>> ELSE store_be16(proto))

\* C15: the PPP header of every packet handed to the transport is FF 03 C0 21
\* for LCP; for any other protocol FF 03 is left out exactly when the peer
\* advertised ACCOMP (ACCOMP is in in_lcp_opts), and the protocol field is one
\* byte exactly when the peer advertised PFCOMP and the protocol is odd and at
\* most 0xFF, two bytes big-endian otherwise.
C15_EgressHeader ==
    (pc = "write" /\ vpninfo.current_ssl_pkt # NoPkt) =>
        LET this == CurPkt
            proto == IF IsControl(this) THEN this.proto ELSE ip_proto(this)
            hdr == EgressHeader(ppp.in_lcp_opts, proto)
        IN this.hdr = <<245, 0>> \o store_be16(Len(this.data) + Len(hdr)) \o hdr

\* the ingress rule: protocol and header bytes consumed, or the frame is bad
IngressRule(opts, b) ==
    IF SubSeq(b, 1, 4) = <<255, 3, 192, 33>>
    THEN [bad |-> FALSE, proto |-> PPP_LCP, hlen |-> 4]
    ELSE LET present == SubSeq(b, 1, 2) = <<255, 3>>
             rest == IF present THEN SubSeq(b, 3, Len(b)) ELSE b
             skipped == IF present THEN 2 ELSE 0
         IN IF ~present /\ ACCOMP \notin opts
            THEN [bad |-> TRUE, proto |-> 0, hlen |-> 0]
            ELSE IF PFCOMP \in opts /\ rest[1] % 2 = 1
            THEN [bad |-> FALSE, proto |-> rest[1], hlen |-> skipped + 1]
            ELSE [bad |-> FALSE, proto |-> rest[1] * 256 + rest[2],
                  hlen |-> skipped + 2]

\* C16: for every combination of ACCOMP and PFCOMP in in_lcp_opts and every
\* header, the protocol extracted and the header bytes consumed are those of
\* the ingress rule: FF 03 C0 21 is LCP with 4 bytes under all four
\* combinations; otherwise FF 03 is consumed when present and required unless
\* ACCOMP is in effect, then the protocol is one byte if PFCOMP is in effect
\* and the byte is odd, two bytes big-endian otherwise.
C16_IngressHeader ==
    (call.fn = "ppp_header" /\ call.returned) =>
        call.out = IngressRule(call.in_lcp_opts, call.bytes)

\* under ACCOMP and PFCOMP the header byte 21 is IPv4 with one byte consumed
C16_Witness ==
    /\ call.fn = "ppp_header"
    /\ call.returned
    /\ call.in_lcp_opts = {ACCOMP, PFCOMP}
    /\ call.bytes[1] = 33
    /\ call.out = [bad |-> FALSE, proto |-> PPP_IP, hlen |-> 1]

\* C17: the four terminate flags are distinct. The step that reads a
\* Terminate-Request and queues its Ack leaves the NCP state with
\* TERM_REQ_RECEIVED and TERM_ACK_SENT and with neither TERM_REQ_SENT nor
\* TERM_ACK_RECEIVED; the step that reads a Terminate-Ack leaves it with
\* TERM_ACK_RECEIVED and without TERM_REQ_RECEIVED.
C17_TermFlagsDistinct ==
    [][/\ \A c \in TermReqCases :
             (ReadsFrame /\ rxframe' = TermReqFrame(c[1], c[2], c[3])) =>
                 LET state == ncp_of(ppp', c[1]).state
                 IN /\ NCP_TERM_REQ_RECEIVED \in state
                    /\ NCP_TERM_ACK_SENT \in state
                    /\ NCP_TERM_REQ_SENT \notin state
                    /\ NCP_TERM_ACK_RECEIVED \notin state
       /\ (ReadsFrame /\ rxframe' = TermAckFrame(PPP_LCP, 4)) =>
              /\ NCP_TERM_ACK_RECEIVED \in ppp'.lcp.state
              /\ NCP_TERM_REQ_RECEIVED \notin ppp'.lcp.state]_vars

\* C18: on a session created with the F5 HDLC encapsulation, a call that read
\* a frame of at least 8 bytes does not fail with the invalid-encapsulation
\* error: the frame is accepted by the encapsulation step as on an F5 session.
C18_F5HdlcAccepted ==
    (ppp.encap = PPP_ENCAP_F5_HDLC /\ Len(rxframe) >= 8) =>
        /\ retsite # "encap"
        /\ vpninfo.quit_reason # Reason("Invalid encapsulation")
        /\ retval # -EINVAL

\* C19: TERMINATE is absorbing. No step leaves TERMINATE, and a ppp_mainloop
\* call entered in TERMINATE with the transport open returns 1 at once: it
\* reads nothing, writes nothing and leaves ppp_state, the NCP flag sets, the
\* negotiated parameters and the queues as they were.
C19_TerminateAbsorbing ==
    [][/\ ppp.ppp_state = PPPS_TERMINATE => ppp'.ppp_state = PPPS_TERMINATE
       /\ (EnterStep /\ ppp.ppp_state = PPPS_TERMINATE /\ vpninfo.ssl_fd # -1) =>
              /\ pc' = "idle"
              /\ retval' = 1
              /\ ppp' = ppp
              /\ vpninfo' = vpninfo
              /\ rxcount' = rxcount
              /\ rxframe' = <<>>
              /\ txres' = "none"]_vars

\* a call entered in TERMINATE has returned 1 by the state switch, with the
\* host's packet still on the outgoing queue
C19_Witness ==
    /\ ppp.ppp_state = PPPS_TERMINATE
    /\ pc = "idle"
    /\ retsite = "state"
    /\ retval = 1
    /\ vpninfo.ssl_fd # -1
    /\ vpninfo.outgoing_queue # <<>>

\* C20: exp_ppp_hdr_size is a hint only. For an IP data frame processed in
\* NETWORK, the packet appended to the incoming queue and the session state
\* apart from exp_ppp_hdr_size are the same whichever of 1..4
\* exp_ppp_hdr_size held before the read, and exp_ppp_hdr_size is within 1..4
\* afterwards, as in every state of the session.
C20_HintOnly ==
    /\ ppp.exp_ppp_hdr_size \in 1..4
    /\ (call.fn = "read" /\ call.returned) =>
           \A v \in 1..4 :
               /\ call.out[v].hint \in 1..4
               /\ [call.out[v] EXCEPT !.hint = 0] = [call.out[4] EXCEPT !.hint = 0]

\* C21: no IPCP or IP6CP Configure-Request is enqueued while LCP is not open:
\* in every step that enqueues one, LCP has both CONF_ACK_SENT and
\* CONF_ACK_RECEIVED, whenever the call comes relative to the 3-second
\* deadline of the LCP Configure-Request.
C21_NcpRequestNeedsLcpOpen ==
    [][\A p \in {PPP_IPCP, PPP_IP6CP} :
          NewConfReqs(vpninfo.tcp_control_queue, vpninfo'.tcp_control_queue, p) # {}
              => HasBoth(ppp.lcp) /\ HasBoth(ppp'.lcp)]_vars

\* C22: in every state and for each NCP, CONF_ACK_RECEIVED is set only if
\* CONF_REQ_SENT is set, and CONF_ACK_SENT is set only if CONF_REQ_RECEIVED
\* is set.
C22_AckFollowsRequest ==
    \A proto \in {PPP_LCP, PPP_IPCP, PPP_IP6CP} :
        LET state == ncp_of(ppp, proto).state
        IN /\ NCP_CONF_ACK_RECEIVED \in state => NCP_CONF_REQ_SENT \in state
           /\ NCP_CONF_ACK_SENT \in state => NCP_CONF_REQ_RECEIVED \in state

\* the half of C22 about the engine's own acknowledgements
C22_AckSentFollowsRequest ==
    \A proto \in {PPP_LCP, PPP_IPCP, PPP_IP6CP} :
        NCP_CONF_ACK_SENT \in ncp_of(ppp, proto).state
            => NCP_CONF_REQ_RECEIVED \in ncp_of(ppp, proto).state

\* C23: every control packet built by queue_config_packet fits the 64 data
\* bytes allocated for it: the Configure-Requests, the Configure-Acks that
\* echo a received request's payload, the Echo-Replies, Terminate-Acks,
\* Discard-Requests and Echo-Requests all have 4 + len <= 64.
C23_ControlPacketFits ==
    /\ pc # "crashed"
    /\ \A p \in ControlPackets : within_malloc(p)

====
